---- MODULE Spec2Model ----
(***************************************************************************)
(* Model of src/index.js: the WhatsApp pairing server with a pairing-hold  *)
(* window.  One connector invocation is a "flow"; a flow is started by a   *)
(* GET /pair request (under the process-wide mutex) or by a reconnect      *)
(* backoff timer (outside the mutex).  The protocol client (baileys), the  *)
(* file system and the clock are the environment.                          *)
(*                                                                         *)
(* Time is counted in ticks of TickMs = 500 ms, the period of the hold     *)
(* loop's delay(500).  A timer fires when its delay has elapsed and before *)
(* the clock advances further; the order of handlers that are due at the   *)
(* same instant is free.  Awaited promises of the environment              *)
(* (useMultiFileAuthState, delay(200), requestPairingCode, saveCreds,      *)
(* upload) settle after an unspecified time.                               *)
(*                                                                         *)
(* The temporary directory name is `${num}-${Date.now()}`: the model takes *)
(* the names of two flows to differ (no two connector invocations for one  *)
(* number in the same millisecond).                                        *)
(***************************************************************************)
EXTENDS Integers, Sequences, FiniteSets, TLC

(* ---------------------------- bounds ---------------------------------- *)
\* GET /pair requests that arrive in one run
MaxRequests == 2
\* connector invocations in one run (requests first, then reconnects)
MaxFlows == 3
\* protocol-client sockets created in one run
MaxSockets == 2
\* creds.update notifications delivered in one run
MaxCredsUpdates == 1

(* ------------------------ program constants --------------------------- *)
\* parseInt(process.env.MAX_RECONNECTS || '3'), here MAX_RECONNECTS=1
MAX_RECONNECTS == 1
\* process.env.PAIR_HOLD_MS, here 1000 ms = 2 ticks
PAIR_HOLD_MS == 2
\* process.env.CLEANUP_DELAY_MS, here 1500 ms = 3 ticks
CLEANUP_DELAY_MS == 3
\* process.env.RECONNECT_BACKOFF_MS, here 500 ms = 1 tick
RECONNECT_BACKOFF_MS == 1
\* setTimeout(..., 1000) after the hold window expired = 2 ticks
HOLD_CLEANUP_MS == 2

\* DisconnectReason of baileys, and the statusCode of an error without one
connectionClosed == 428
connectionLost == 408
restartRequired == 515
loggedOut == 401
connectionReplaced == 440
NoReason == 0

Reasons == {loggedOut, connectionClosed, connectionLost, restartRequired,
            connectionReplaced, NoReason}

Requests == 1..MaxRequests
Flows == 1..MaxFlows
NoTimer == -1

(* ------------------------- request inputs ----------------------------- *)
\* req.query.code: absent, or a string given as its sequence of characters
\* (absent, '', '+' and '+1': '+' is a non-empty string without a digit)
Absent == [present |-> FALSE, chars |-> <<>>]
Str(s) == [present |-> TRUE, chars |-> s]
RawInputs == {Absent, Str(<<>>), Str(<<"+">>), Str(<<"+", "1">>)}

Digits == {"0", "1", "2", "3", "4", "5", "6", "7", "8", "9"}
IsDigit(c) == c \in Digits

\* (variant: the pattern has no g flag, only the first non-digit is removed)
SanitizeFirstOnly(chars) ==
  IF \A i \in 1..Len(chars) : IsDigit(chars[i])
  THEN chars
  ELSE LET i == CHOOSE k \in 1..Len(chars) :
                  ~IsDigit(chars[k]) /\ \A j \in 1..(k - 1) : IsDigit(chars[j])
       IN SubSeq(chars, 1, i - 1) \o SubSeq(chars, i + 1, Len(chars))

\* String(NUMBER).replace(/[^0-9]/g, '')
Sanitize(chars) == SelectSeq(chars, IsDigit)

\* the keys reconnectAttempts can get
Nums == {Sanitize(raw.chars) : raw \in RawInputs}

\* if (!number): undefined and '' are falsy
NumberMissing(raw) == ~raw.present \/ raw.chars = <<>>

(* ----------------------- pairing-code format --------------------------- *)
\* the characters `.` does not match (LF, CR, U+2028, U+2029)
LineTerminators == {"LF", "CR", "LS", "PS"}
DotMatches(c) == c \notin LineTerminators

\* the upper count of the quantifier in /.{1,4}/g
MaxGroup == 4

\* (variant: the quantifier is lazy, .{1,4}?)
GreedyRunLazy(s) == IF s # <<>> /\ DotMatches(s[1]) THEN 1 ELSE 0

\* length of the match of .{1,4} at the start of s (greedy), 0 if there is none
GreedyRun(s) ==
  LET Fits(k) == k <= Len(s) /\ \A i \in 1..k : DotMatches(s[i])
  IN CHOOSE k \in 0..MaxGroup : Fits(k) /\ (k = MaxGroup \/ ~Fits(k + 1))

\* s.match(/.{1,4}/g): the successive matches from left to right; <<>> stands for
\* null (no match at all)
RECURSIVE Match(_)
Match(s) ==
  IF s = <<>> THEN <<>>
  ELSE LET k == GreedyRun(s)
       IN IF k = 0 THEN Match(Tail(s))
          ELSE <<SubSeq(s, 1, k)>> \o Match(SubSeq(s, k + 1, Len(s)))

\* groups.join('-')
RECURSIVE Join(_)
Join(groups) ==
  IF groups = <<>> THEN <<>>
  ELSE IF Len(groups) = 1 THEN groups[1]
  ELSE groups[1] \o <<"-">> \o Join(Tail(groups))

\* String(rawCode).match(/.{1,4}/g).join('-'), where the match is not null
Pretty(raw) == Join(Match(raw))

(* ----------------------------- state ---------------------------------- *)
VARIABLES
  reqPc,             \* per request: "idle", "waiting", "acquired", "running", "done"
  reqNumber,         \* per request: req.query.code
  responses,         \* per request: the responses sent on res, in order
  locked,            \* mutex: held
  queue,             \* mutex: waiting acquirers, FIFO
  nextFlow,          \* the next reconnect flow to use
  pc,                \* per flow: position in connector
  fNum,              \* per flow: num
  fRes,              \* per flow: res (a request, or 0 for null)
  registered,        \* per flow: let registered
  credsReg,          \* per flow: Boolean(state.creds.registered || state.creds.me.id)
  saving,            \* per flow: creds.update handlers awaiting saveCreds()
  cleanupTimer,      \* per flow: let cleanupTimer, ticks left or NoTimer
  holdTimer,         \* per flow: the hold-expiry setTimeout, ticks left or NoTimer
  holdElapsed,       \* per flow: Date.now() - start
  pollDue,           \* per flow: the hold loop's delay(500) has elapsed
  tempDir,           \* per flow: "none", "exists", "removed", "moved"
  sock,              \* per flow: "none", "connecting", "open", "closed"
  pairReq,           \* per flow: calls of sock.requestPairingCode
  reconnectAttempts, \* Map num -> attempts (a missing key reads as 0)
  rcTimers,          \* per num: pending reconnect setTimeouts by ticks left
  persistDir,        \* per num: PERSISTENT_BASE_DIR/num exists
  ACTIVE_SOCKET,     \* the flow whose socket was stored last, 0 for null
  credsUpdates,      \* creds.update notifications delivered so far
  streak,            \* history, per num: recoverable closes in a row since the counter was 0
  persistAtStart,    \* history, per flow: PERSISTENT_BASE_DIR/num existed when connector began
  regInGrace,        \* per flow: registered creds arrived within the grace delay of a 401
  fnPc,              \* the conversions taken alone: "off", "ready", "done", "threw"
  rawCode,           \* const rawCode, as its sequence of characters
  pretty,            \* const pretty
  NUMBER,            \* connector's argument NUMBER, as its sequence of characters
  sanitized          \* const num

reqVars == <<reqPc, reqNumber, responses, locked, queue>>
flowVars == <<pc, fNum, fRes, registered, credsReg, saving, cleanupTimer, holdTimer,
              holdElapsed, pollDue, tempDir, sock, pairReq>>
globalVars == <<nextFlow, reconnectAttempts, rcTimers, persistDir, ACTIVE_SOCKET,
                credsUpdates>>
ghostVars == <<streak, persistAtStart, regInGrace>>
fnVars == <<fnPc, rawCode, pretty, NUMBER, sanitized>>
serverVars == <<reqVars, flowVars, globalVars, ghostVars>>
vars == <<serverVars, fnVars>>

\* the process after startup: no request yet, no flow, empty reconnectAttempts
ServerInit ==
  /\ reqPc = [r \in Requests |-> "idle"]
  /\ reqNumber = [r \in Requests |-> Absent]
  /\ responses = [r \in Requests |-> <<>>]
  /\ locked = FALSE
  /\ queue = <<>>
  /\ nextFlow = MaxRequests + 1
  /\ pc = [f \in Flows |-> "unused"]
  /\ fNum = [f \in Flows |-> <<>>]
  /\ fRes = [f \in Flows |-> 0]
  /\ registered = [f \in Flows |-> FALSE]
  /\ credsReg = [f \in Flows |-> FALSE]
  /\ saving = [f \in Flows |-> 0]
  /\ cleanupTimer = [f \in Flows |-> NoTimer]
  /\ holdTimer = [f \in Flows |-> NoTimer]
  /\ holdElapsed = [f \in Flows |-> 0]
  /\ pollDue = [f \in Flows |-> FALSE]
  /\ tempDir = [f \in Flows |-> "none"]
  /\ sock = [f \in Flows |-> "none"]
  /\ pairReq = [f \in Flows |-> 0]
  /\ reconnectAttempts = [n \in Nums |-> 0]
  /\ rcTimers = [n \in Nums |-> [d \in 0..RECONNECT_BACKOFF_MS |-> 0]]
  /\ persistDir = [n \in Nums |-> FALSE]
  /\ ACTIVE_SOCKET = 0
  /\ credsUpdates = 0
  /\ streak = [n \in Nums |-> 0]
  /\ persistAtStart = [f \in Flows |-> FALSE]
  /\ regInGrace = [f \in Flows |-> FALSE]

Init ==
  /\ ServerInit
  /\ fnPc = "off"
  /\ rawCode = <<>>
  /\ pretty = <<>>
  /\ NUMBER = <<>>
  /\ sanitized = <<>>

(* --------------------------- HTTP layer ------------------------------- *)
R400 == [status |-> 400, body |-> "Phone number required"]
R429 == [status |-> 429, body |-> "too_many_reconnects"]
R200Code == [status |-> 200, body |-> "code"]
R200Already == [status |-> 200, body |-> "already_registered"]
\* (variant: the rejection escapes connector and the handler answers for it)
R500PairingEscapes == [status |-> 500, body |-> "internal_error"]
R500Pairing == [status |-> 500, body |-> "pairing_failed"]
R500Internal == [status |-> 500, body |-> "internal_error"]
NoBody == [status |-> 0, body |-> "none"]

\* (variant: the headersSent test is inverted)
RespondIfSent(sent, body) == IF sent # <<>> THEN Append(sent, body) ELSE sent

\* if (res && !res.headersSent) res.status(..).json(..)
Respond(sent, body) == IF sent = <<>> THEN <<body>> ELSE sent

\* (variant: acquire never waits)
CanAcquireAlways == TRUE

\* mutex.acquire() can take the lock at once
CanAcquire == ~locked

\* What a step of flow res = r does to its request: an optional response, and when
\* connector returns or throws, the handler's finally { release() }, which hands the
\* lock to the longest-waiting acquirer.
ReqEffect(r, body, returns) ==
  IF r = 0
  THEN UNCHANGED reqVars
  ELSE /\ responses' = IF body = NoBody THEN responses
                       ELSE [responses EXCEPT ![r] = Respond(@, body)]
       /\ reqNumber' = reqNumber
       /\ IF ~returns
          THEN /\ reqPc' = [reqPc EXCEPT ![r] = "running"]
               /\ UNCHANGED <<locked, queue>>
          ELSE IF queue = <<>>
               THEN /\ reqPc' = [reqPc EXCEPT ![r] = "done"]
                    /\ locked' = FALSE
                    /\ queue' = queue
               ELSE /\ reqPc' = [reqPc EXCEPT ![r] = "done", ![Head(queue)] = "acquired"]
                    /\ locked' = TRUE
                    /\ queue' = Tail(queue)

\* app.get('/pair') up to `await mutex.acquire()`
Arrive(r, raw) ==
  /\ reqPc[r] = "idle"
  /\ r > 1 => reqPc[r - 1] # "idle"
  /\ reqNumber' = [reqNumber EXCEPT ![r] = raw]
  /\ IF NumberMissing(raw)
     THEN /\ responses' = [responses EXCEPT ![r] = Append(@, R400)]
          /\ reqPc' = [reqPc EXCEPT ![r] = "done"]
          /\ UNCHANGED <<locked, queue>>
     ELSE /\ responses' = responses
          /\ IF CanAcquire
             THEN /\ locked' = TRUE
                  /\ reqPc' = [reqPc EXCEPT ![r] = "acquired"]
                  /\ queue' = queue
             ELSE /\ reqPc' = [reqPc EXCEPT ![r] = "waiting"]
                  /\ queue' = Append(queue, r)
                  /\ locked' = locked
  /\ UNCHANGED <<flowVars, globalVars, ghostVars>>
  /\ UNCHANGED fnVars

(* ---------------------------- connector ------------------------------- *)
\* (variant: the limit test is strict)
LimitReachedStrict(attempts) == attempts > MAX_RECONNECTS

\* if (attempts >= MAX_RECONNECTS)
LimitReached(attempts) == attempts >= MAX_RECONNECTS

\* connector from its first line to `await useMultiFileAuthState(tempDir)` or to
\* the early return of the reconnect limit
ConnectorStart(f, chars, r) ==
  LET num == Sanitize(chars)
      stop == LimitReached(reconnectAttempts[num])
  IN /\ fNum' = [fNum EXCEPT ![f] = num]
     /\ fRes' = [fRes EXCEPT ![f] = r]
     /\ tempDir' = [tempDir EXCEPT ![f] = "exists"]
     /\ persistAtStart' = [persistAtStart EXCEPT ![f] = persistDir[num]]
     /\ pc' = [pc EXCEPT ![f] = IF stop THEN "returned" ELSE "loadAuth"]
     /\ ReqEffect(r, IF stop THEN R429 ELSE NoBody, stop)
     /\ UNCHANGED <<registered, credsReg, saving, cleanupTimer, holdTimer, holdElapsed,
                    pollDue, sock, pairReq>>

\* the /pair handler after the lock was granted: connector(number, res)
StartPair(r) ==
  /\ reqPc[r] = "acquired"
  /\ ConnectorStart(r, reqNumber[r].chars, r)
  /\ UNCHANGED <<globalVars, streak, regInGrace>>
  /\ UNCHANGED fnVars

\* makeWASocket calls so far
SocketsCreated == Cardinality({f \in Flows : sock[f] # "none"})

\* Boolean(state.creds?.registered || state.creds?.me?.id) of the state loaded from
\* the directory created a moment ago: no creds.json there, initAuthCreds()
LoadedRegistered(f) == FALSE

\* useMultiFileAuthState settles; on success makeWASocket, the handlers, and the
\* branch on registered up to `await delay(200)`.  ok = FALSE: the load or
\* makeWASocket throws and connector rejects.
LoadAuthDone(f, ok) ==
  /\ pc[f] = "loadAuth"
  /\ ok => SocketsCreated < MaxSockets
  /\ IF ~ok
     THEN /\ pc' = [pc EXCEPT ![f] = "returned"]
          /\ ReqEffect(fRes[f], R500Internal, TRUE)
          /\ UNCHANGED <<registered, sock, ACTIVE_SOCKET>>
     ELSE /\ registered' = [registered EXCEPT ![f] = LoadedRegistered(f)]
          /\ sock' = [sock EXCEPT ![f] = "connecting"]
          /\ ACTIVE_SOCKET' = f
          /\ IF registered'[f]
             THEN /\ pc' = [pc EXCEPT ![f] = "returned"]
                  /\ ReqEffect(fRes[f], R200Already, TRUE)
             ELSE /\ pc' = [pc EXCEPT ![f] = "settle"]
                  /\ UNCHANGED reqVars
  /\ UNCHANGED <<fNum, fRes, credsReg, saving, cleanupTimer, holdTimer, holdElapsed,
                 pollDue, tempDir, pairReq>>
  /\ UNCHANGED <<nextFlow, reconnectAttempts, rcTimers, persistDir, credsUpdates>>
  /\ UNCHANGED ghostVars
  /\ UNCHANGED fnVars

\* delay(200) elapsed: sock.requestPairingCode(num) is called
SettleDone(f) ==
  /\ pc[f] = "settle"
  /\ pc' = [pc EXCEPT ![f] = "requesting"]
  /\ pairReq' = [pairReq EXCEPT ![f] = @ + 1]
  /\ UNCHANGED <<fNum, fRes, registered, credsReg, saving, cleanupTimer, holdTimer,
                 holdElapsed, pollDue, tempDir, sock>>
  /\ UNCHANGED <<reqVars, globalVars, ghostVars>>
  /\ UNCHANGED fnVars

\* (variant: the hold loop has no timeout)
HoldOnUntilRegistered(elapsed, reg) == ~reg

\* while (Date.now() - start < PAIR_HOLD_MS && !registered)
HoldOn(elapsed, reg) == elapsed < PAIR_HOLD_MS /\ ~reg

\* fs.existsSync(finalCredsPath)
CredsFileExists(f) == persistDir[fNum[f]] \/ tempDir[f] = "exists"

\* after the hold loop: the upload branch or the hold-expiry cleanup timer
\* (body: the response res.json({code}) sent just before the loop, if any)
ExitHold(f, body) ==
  IF registered[f]
  THEN IF CredsFileExists(f)
       THEN /\ pc' = [pc EXCEPT ![f] = "uploading"]
            /\ holdTimer' = holdTimer
            /\ ReqEffect(fRes[f], body, FALSE)
       ELSE /\ pc' = [pc EXCEPT ![f] = "returned"]
            /\ holdTimer' = holdTimer
            /\ ReqEffect(fRes[f], body, TRUE)
  ELSE /\ pc' = [pc EXCEPT ![f] = "returned"]
       /\ holdTimer' = [holdTimer EXCEPT ![f] = HOLD_CLEANUP_MS]
       /\ ReqEffect(fRes[f], body, TRUE)

\* requestPairingCode settles.  Resolved: the code is sent and the hold loop is
\* entered.  Rejected: the inner catch answers 500 and connector ends.
PairingCodeSettled(f, ok) ==
  /\ pc[f] = "requesting"
  /\ IF ok
     THEN IF HoldOn(0, registered[f])
          THEN /\ pc' = [pc EXCEPT ![f] = "hold"]
               /\ holdElapsed' = [holdElapsed EXCEPT ![f] = 0]
               /\ pollDue' = [pollDue EXCEPT ![f] = FALSE]
               /\ ReqEffect(fRes[f], R200Code, FALSE)
               /\ holdTimer' = holdTimer
          ELSE /\ ExitHold(f, R200Code)
               /\ UNCHANGED <<holdElapsed, pollDue>>
     ELSE /\ pc' = [pc EXCEPT ![f] = "returned"]
          /\ ReqEffect(fRes[f], R500Pairing, TRUE)
          /\ UNCHANGED <<holdTimer, holdElapsed, pollDue>>
  /\ UNCHANGED <<fNum, fRes, registered, credsReg, saving, cleanupTimer, tempDir, sock,
                 pairReq>>
  /\ UNCHANGED <<globalVars, ghostVars>>
  /\ UNCHANGED fnVars

\* the hold loop's delay(500) has elapsed: the loop condition is read again
HoldWake(f) ==
  /\ pc[f] = "hold"
  /\ pollDue[f]
  /\ pollDue' = [pollDue EXCEPT ![f] = FALSE]
  /\ IF HoldOn(holdElapsed[f], registered[f])
     THEN UNCHANGED <<pc, holdTimer, reqVars>>
     ELSE ExitHold(f, NoBody)
  /\ UNCHANGED <<fNum, fRes, registered, credsReg, saving, cleanupTimer, holdElapsed,
                 tempDir, sock, pairReq>>
  /\ UNCHANGED <<globalVars, ghostVars>>
  /\ UNCHANGED fnVars

\* upload(finalCredsPath) settles (a rejection is caught and logged): connector returns
UploadSettled(f) ==
  /\ pc[f] = "uploading"
  /\ pc' = [pc EXCEPT ![f] = "returned"]
  /\ ReqEffect(fRes[f], NoBody, TRUE)
  /\ UNCHANGED <<fNum, fRes, registered, credsReg, saving, cleanupTimer, holdTimer,
                 holdElapsed, pollDue, tempDir, sock, pairReq>>
  /\ UNCHANGED <<globalVars, ghostVars>>
  /\ UNCHANGED fnVars

(* ----------------------- protocol-client events ----------------------- *)
\* (variant: connectionReplaced is in the list too)
IsRecoverableOrReplaced(reason) ==
  reason \in {connectionClosed, connectionLost, restartRequired, connectionReplaced}

\* [connectionClosed, connectionLost, restartRequired].includes(reasonCode)
IsRecoverable(reason) == reason \in {connectionClosed, connectionLost, restartRequired}

\* (variant: the last attempt is not scheduled)
ShouldReconnectStrict(newAttempts) == newAttempts < MAX_RECONNECTS

\* if (newAttempts <= MAX_RECONNECTS)
ShouldReconnect(newAttempts) == newAttempts <= MAX_RECONNECTS

\* reconnect setTimeouts that have not fired yet
PendingReconnects(n) ==
  LET RECURSIVE Sum(_)
      Sum(d) == IF d < 0 THEN 0 ELSE rcTimers[n][d] + Sum(d - 1)
  IN Sum(RECONNECT_BACKOFF_MS)

RECURSIVE TotalPending(_)
TotalPending(ns) ==
  IF ns = {} THEN 0
  ELSE LET n == CHOOSE x \in ns : TRUE IN PendingReconnects(n) + TotalPending(ns \ {n})

\* (variant: an open clears the whole map)
ResetAllAttempts(map, num) == [n \in DOMAIN map |-> 0]

\* reconnectAttempts.set(num, 0)
ResetAttempts(map, num) == [map EXCEPT ![num] = 0]

\* connection.update with connection === 'open' (a socket opens once)
Open(f) ==
  /\ sock[f] = "connecting"
  /\ sock' = [sock EXCEPT ![f] = "open"]
  /\ reconnectAttempts' = ResetAttempts(reconnectAttempts, fNum[f])
  /\ streak' = [streak EXCEPT ![fNum[f]] = 0]
  /\ UNCHANGED <<pc, fNum, fRes, registered, credsReg, saving, cleanupTimer, holdTimer,
                 holdElapsed, pollDue, tempDir, pairReq>>
  /\ UNCHANGED <<nextFlow, rcTimers, persistDir, ACTIVE_SOCKET, credsUpdates>>
  /\ UNCHANGED <<reqVars, regInGrace, persistAtStart>>
  /\ UNCHANGED fnVars

\* connection.update with connection === 'close' and
\* lastDisconnect?.error?.output?.statusCode = reason (a socket ends once)
Close(f, reason) ==
  LET num == fNum[f]
      newAttempts == reconnectAttempts[num] + 1
  IN /\ sock[f] \in {"connecting", "open"}
     /\ sock' = [sock EXCEPT ![f] = "closed"]
     /\ IF reason = loggedOut
        THEN /\ cleanupTimer' = [cleanupTimer EXCEPT ![f] =
                                   IF registered[f] THEN @ ELSE CLEANUP_DELAY_MS]
             /\ UNCHANGED <<reconnectAttempts, rcTimers, streak>>
        ELSE IF IsRecoverable(reason)
             THEN /\ reconnectAttempts' = [reconnectAttempts EXCEPT ![num] = newAttempts]
                  /\ streak' = [streak EXCEPT ![num] = @ + 1]
                  /\ IF ShouldReconnect(newAttempts)
                     THEN \* the model has a flow left for the reconnect to run in
                          /\ nextFlow + TotalPending(Nums) <= MaxFlows
                          /\ rcTimers' = [rcTimers EXCEPT ![num][RECONNECT_BACKOFF_MS] = @ + 1]
                     ELSE rcTimers' = rcTimers
                  /\ cleanupTimer' = cleanupTimer
             ELSE UNCHANGED <<reconnectAttempts, rcTimers, cleanupTimer, streak>>
     /\ UNCHANGED <<pc, fNum, fRes, registered, credsReg, saving, holdTimer, holdElapsed,
                    pollDue, tempDir, pairReq>>
     /\ UNCHANGED <<nextFlow, persistDir, ACTIVE_SOCKET, credsUpdates>>
     /\ UNCHANGED <<reqVars, regInGrace, persistAtStart>>
     /\ UNCHANGED fnVars

\* creds.update is emitted: state.creds was updated by the client (reg: it now
\* carries registered or me.id) and the handler awaits saveCreds()
CredsUpdate(f, reg) ==
  /\ sock[f] # "none"
  /\ credsUpdates < MaxCredsUpdates
  /\ credsUpdates' = credsUpdates + 1
  /\ credsReg' = [credsReg EXCEPT ![f] = @ \/ reg]
  /\ saving' = [saving EXCEPT ![f] = @ + 1]
  /\ regInGrace' = [regInGrace EXCEPT ![f] =
                      @ \/ (reg /\ cleanupTimer[f] > 0)]
  /\ UNCHANGED <<pc, fNum, fRes, registered, cleanupTimer, holdTimer, holdElapsed,
                 pollDue, tempDir, sock, pairReq>>
  /\ UNCHANGED <<nextFlow, reconnectAttempts, rcTimers, persistDir, ACTIVE_SOCKET>>
  /\ UNCHANGED <<reqVars, streak, persistAtStart>>
  /\ UNCHANGED fnVars

\* saveCreds() settles in the creds.update handler; a write into a directory that
\* is gone may have happened before the removal (ok) or fail (~ok).  On success the
\* flag is re-read and a registered session is moved: moveDir(tempDir, dest).
SaveDone(f, ok) ==
  /\ saving[f] > 0
  /\ tempDir[f] = "exists" => ok
  /\ saving' = [saving EXCEPT ![f] = @ - 1]
  /\ IF ok
     THEN /\ registered' = [registered EXCEPT ![f] = credsReg[f]]
          /\ IF credsReg[f] /\ tempDir[f] = "exists"
             THEN /\ tempDir' = [tempDir EXCEPT ![f] = "moved"]
                  /\ persistDir' = [persistDir EXCEPT ![fNum[f]] = TRUE]
             ELSE UNCHANGED <<tempDir, persistDir>>
     ELSE UNCHANGED <<registered, tempDir, persistDir>>
  /\ UNCHANGED <<pc, fNum, fRes, credsReg, cleanupTimer, holdTimer, holdElapsed, pollDue,
                 sock, pairReq>>
  /\ UNCHANGED <<nextFlow, reconnectAttempts, rcTimers, ACTIVE_SOCKET, credsUpdates>>
  /\ UNCHANGED <<reqVars, ghostVars>>
  /\ UNCHANGED fnVars

(* ------------------------------ timers -------------------------------- *)
\* removeDir(dir): if (fs.existsSync(dir)) fs.rmSync(dir, ...)
RemoveDir(state) == IF state = "exists" THEN "removed" ELSE state

\* the timer callbacks' test: if (!registered)
MayRemove(reg) == ~reg

\* cleanupTimer fires, CLEANUP_DELAY_MS after the 401 close
CleanupFire(f) ==
  /\ cleanupTimer[f] = 0
  /\ cleanupTimer' = [cleanupTimer EXCEPT ![f] = NoTimer]
  /\ tempDir' = [tempDir EXCEPT ![f] = IF MayRemove(registered[f]) THEN RemoveDir(@) ELSE @]
  /\ UNCHANGED <<pc, fNum, fRes, registered, credsReg, saving, holdTimer, holdElapsed,
                 pollDue, sock, pairReq>>
  /\ UNCHANGED <<reqVars, globalVars, ghostVars>>
  /\ UNCHANGED fnVars

\* the hold-expiry timer fires, 1000 ms after the hold window ended unregistered
HoldCleanupFire(f) ==
  /\ holdTimer[f] = 0
  /\ holdTimer' = [holdTimer EXCEPT ![f] = NoTimer]
  /\ tempDir' = [tempDir EXCEPT ![f] = IF MayRemove(registered[f]) THEN RemoveDir(@) ELSE @]
  /\ UNCHANGED <<pc, fNum, fRes, registered, credsReg, saving, cleanupTimer, holdElapsed,
                 pollDue, sock, pairReq>>
  /\ UNCHANGED <<reqVars, globalVars, ghostVars>>
  /\ UNCHANGED fnVars

\* a reconnect timer fires: connector(num).catch(console.error), outside the mutex
ReconnectFire(n) ==
  /\ rcTimers[n][0] > 0
  /\ nextFlow <= MaxFlows
  /\ rcTimers' = [rcTimers EXCEPT ![n][0] = @ - 1]
  /\ nextFlow' = nextFlow + 1
  /\ ConnectorStart(nextFlow, n, 0)
  /\ UNCHANGED <<reconnectAttempts, persistDir, ACTIVE_SOCKET, credsUpdates>>
  /\ UNCHANGED <<streak, regInGrace>>
  /\ UNCHANGED fnVars

\* a handler is due now
Due ==
  \/ \E f \in Flows : cleanupTimer[f] = 0 \/ holdTimer[f] = 0 \/ (pc[f] = "hold" /\ pollDue[f])
  \/ \E n \in Nums : rcTimers[n][0] > 0

Dec(t) == IF t > 0 THEN t - 1 ELSE t

\* TickMs pass
Tick ==
  /\ ~Due
  /\ cleanupTimer' = [f \in Flows |-> Dec(cleanupTimer[f])]
  /\ holdTimer' = [f \in Flows |-> Dec(holdTimer[f])]
  /\ rcTimers' = [n \in Nums |-> [d \in 0..RECONNECT_BACKOFF_MS |->
                    IF d = RECONNECT_BACKOFF_MS THEN 0 ELSE rcTimers[n][d + 1]]]
  /\ holdElapsed' = [f \in Flows |->
                       IF pc[f] = "hold" /\ holdElapsed[f] < PAIR_HOLD_MS
                       THEN holdElapsed[f] + 1 ELSE holdElapsed[f]]
  /\ pollDue' = [f \in Flows |-> pc[f] = "hold"]
  /\ UNCHANGED <<pc, fNum, fRes, registered, credsReg, saving, tempDir, sock, pairReq>>
  /\ UNCHANGED <<nextFlow, reconnectAttempts, persistDir, ACTIVE_SOCKET, credsUpdates>>
  /\ UNCHANGED <<reqVars, ghostVars>>
  /\ UNCHANGED fnVars

(* --------------------------- specification ---------------------------- *)
Next ==
  \/ \E r \in Requests, raw \in RawInputs : Arrive(r, raw)
  \/ \E r \in Requests : StartPair(r)
  \/ \E f \in Flows, ok \in BOOLEAN : LoadAuthDone(f, ok)
  \/ \E f \in Flows : SettleDone(f)
  \/ \E f \in Flows, ok \in BOOLEAN : PairingCodeSettled(f, ok)
  \/ \E f \in Flows : HoldWake(f)
  \/ \E f \in Flows : UploadSettled(f)
  \/ \E f \in Flows : Open(f)
  \/ \E f \in Flows, reason \in Reasons : Close(f, reason)
  \/ \E f \in Flows, reg \in BOOLEAN : CredsUpdate(f, reg)
  \/ \E f \in Flows, ok \in BOOLEAN : SaveDone(f, ok)
  \/ \E f \in Flows : CleanupFire(f)
  \/ \E f \in Flows : HoldCleanupFire(f)
  \/ \E n \in Nums : ReconnectFire(n)
  \/ Tick

Spec == Init /\ [][Next]_vars

\* every await of connector settles, every due timer fires and time passes; requests
\* and the protocol client's notifications are under no obligation
Fairness ==
  /\ \A r \in Requests : WF_vars(StartPair(r))
  /\ \A f \in Flows :
       /\ WF_vars(\E ok \in BOOLEAN : LoadAuthDone(f, ok))
       /\ WF_vars(SettleDone(f))
       /\ WF_vars(\E ok \in BOOLEAN : PairingCodeSettled(f, ok))
       /\ WF_vars(HoldWake(f))
       /\ WF_vars(UploadSettled(f))
       /\ WF_vars(CleanupFire(f))
       /\ WF_vars(HoldCleanupFire(f))
  /\ \A n \in Nums : WF_vars(ReconnectFire(n))
  /\ WF_vars(Tick)

LiveSpec == Spec /\ Fairness

(* ---------------------- the conversions alone ------------------------- *)
\* longest raw code and longest number tried
MaxCodeLen == 9
MaxNumberLen == 4

\* requestPairingCode resolves with a code over the client's code alphabet (letters
\* and digits; two of them stand for all); the empty string is the degenerate case
CodeChars == {"A", "7"}
RawCodes == UNION {[1..k -> CodeChars] : k \in 0..MaxCodeLen}

\* req.query.code is any string: digits, a country-code marker, a blank, a letter
NumberChars == {"1", "5", "+", " ", "a"}
NumberInputs == UNION {[1..k -> NumberChars] : k \in 0..MaxNumberLen}

FormatInit ==
  /\ ServerInit
  /\ fnPc = "ready"
  /\ rawCode \in RawCodes
  /\ pretty = <<>>
  /\ NUMBER = <<>>
  /\ sanitized = <<>>

\* const pretty = String(rawCode).match(/.{1,4}/g).join('-'); null.join throws
FormatCode ==
  /\ fnPc = "ready"
  /\ IF Match(rawCode) = <<>>
     THEN fnPc' = "threw" /\ pretty' = pretty
     ELSE fnPc' = "done" /\ pretty' = Pretty(rawCode)
  /\ UNCHANGED <<rawCode, NUMBER, sanitized, serverVars>>

FormatNext == FormatCode

FormatSpec == FormatInit /\ [][FormatNext]_vars

SanitizeInit ==
  /\ ServerInit
  /\ fnPc = "ready"
  /\ NUMBER \in NumberInputs
  /\ sanitized = <<>>
  /\ rawCode = <<>>
  /\ pretty = <<>>

\* const num = String(NUMBER).replace(/[^0-9]/g, '')
SanitizeNumber ==
  /\ fnPc = "ready"
  /\ fnPc' = "done"
  /\ sanitized' = Sanitize(NUMBER)
  /\ UNCHANGED <<NUMBER, rawCode, pretty, serverVars>>

SanitizeNext == SanitizeNumber

SanitizeSpec == SanitizeInit /\ [][SanitizeNext]_vars

(* ----------------------------- properties ----------------------------- *)
\* steps of the protocol client's notifications, as seen on the socket
OpenStep(f) == sock[f] = "connecting" /\ sock'[f] = "open"
CloseStep(f) == sock[f] \in {"connecting", "open"} /\ sock'[f] = "closed"
RecoverableCloseStep(f) ==
  CloseStep(f) /\ reconnectAttempts'[fNum[f]] = reconnectAttempts[fNum[f]] + 1
\* the step arms one more reconnect timer for n
Armed(n) == PendingReconnects(n)' = PendingReconnects(n) + 1
InBody(r) == reqPc[r] \in {"acquired", "running"}
FlowActive(f) == pc[f] \notin {"unused", "returned"}

\* C1: in every reachable state the reconnect counter of every number is at most
\* MAX_RECONNECTS.
C1_CounterNeverExceedsMax ==
  \A n \in Nums : reconnectAttempts[n] <= MAX_RECONNECTS

\* C2 (as claimed): a recoverable close whose increment brings the counter to
\* MAX_RECONNECTS, or finds it already there, arms no reconnect timer.
C2_NoTimerOnceAtMax ==
  [][\A f \in Flows :
       (RecoverableCloseStep(f) /\ reconnectAttempts'[fNum[f]] >= MAX_RECONNECTS)
         => ~Armed(fNum[f])]_vars

\* C2 (amended): a recoverable close that finds the counter already at or above
\* MAX_RECONNECTS arms no reconnect timer, while the close whose increment brings the
\* counter to exactly MAX_RECONNECTS still arms one.
C2_NoTimerOnceAboveMax ==
  [][\A f \in Flows :
       RecoverableCloseStep(f) =>
         /\ reconnectAttempts[fNum[f]] >= MAX_RECONNECTS => rcTimers' = rcTimers
         /\ reconnectAttempts'[fNum[f]] = MAX_RECONNECTS => Armed(fNum[f])]_vars

\* the counter went past the maximum while the MAX_RECONNECTS reconnects scheduled
\* before are still pending: the close that found it at the maximum armed nothing
C2_Witness ==
  \E n \in Nums :
    reconnectAttempts[n] > MAX_RECONNECTS /\ PendingReconnects(n) = MAX_RECONNECTS

\* C3: a /pair request whose connector finds the counter of its number at or above
\* MAX_RECONNECTS is answered 429 too_many_reconnects, creates no socket and requests
\* no pairing code; a rejected request never gets a socket or a code later; and the
\* counter of a number at the limit only falls below it by an open notification on a
\* socket of that number, so every later request is rejected until then.
C3_RejectedAtLimit ==
  /\ [][\A r \in Requests :
          (/\ reqPc[r] = "acquired"
           /\ reqPc'[r] # "acquired"
           /\ reconnectAttempts[Sanitize(reqNumber[r].chars)] >= MAX_RECONNECTS)
            => /\ responses'[r] = <<R429>>
               /\ pc'[r] = "returned"
               /\ sock'[r] = "none"
               /\ pairReq'[r] = 0]_vars
  /\ [](\A r \in Requests :
          responses[r] = <<R429>> =>
            pc[r] = "returned" /\ sock[r] = "none" /\ pairReq[r] = 0)
  /\ [][\A n \in Nums :
          (reconnectAttempts[n] >= MAX_RECONNECTS /\ reconnectAttempts'[n] < MAX_RECONNECTS)
            => \E f \in Flows : fNum[f] = n /\ OpenStep(f)]_vars

\* a request was rejected at the limit
C3_Witness ==
  \E r \in Requests :
    /\ responses[r] = <<R429>>
    /\ reconnectAttempts[Sanitize(reqNumber[r].chars)] >= MAX_RECONNECTS

\* C4: counting from a counter of zero, the k-th recoverable close in a row for a
\* number (reason connectionClosed, connectionLost or restartRequired, no open in
\* between) arms a reconnect timer if and only if k <= MAX_RECONNECTS; a later one
\* arms nothing and leaves the counter above the maximum (the stop state).
C4_KthCloseSchedulesIffWithinMax ==
  [][\A f \in Flows, reason \in {connectionClosed, connectionLost, restartRequired} :
       Close(f, reason) =>
         /\ streak'[fNum[f]] = streak[fNum[f]] + 1
         /\ Armed(fNum[f]) <=> streak'[fNum[f]] <= MAX_RECONNECTS
         /\ streak'[fNum[f]] > MAX_RECONNECTS =>
              rcTimers' = rcTimers /\ reconnectAttempts'[fNum[f]] > MAX_RECONNECTS]_vars

\* MAX_RECONNECTS + 1 recoverable closes in a row: the scheduled reconnects have
\* run and nothing is pending
C4_Witness ==
  \E n \in Nums :
    /\ streak[n] = MAX_RECONNECTS + 1
    /\ PendingReconnects(n) = 0
    /\ nextFlow = MaxRequests + 1 + MAX_RECONNECTS

\* C5: an open notification on a socket of number n leaves the counter of n at zero
\* and the counter of every other number as it was.
C5_OpenResetsOnlyItsCounter ==
  [][\A f \in Flows :
       OpenStep(f) =>
         /\ reconnectAttempts'[fNum[f]] = 0
         /\ \A n \in Nums \ {fNum[f]} : reconnectAttempts'[n] = reconnectAttempts[n]]_vars

\* a socket opened after a recoverable close of another socket of its number: the
\* reconnect that close scheduled is still pending and the counter is back at zero
C5_Witness ==
  \E f \in Flows :
    /\ sock[f] = "open"
    /\ reconnectAttempts[fNum[f]] = 0
    /\ PendingReconnects(fNum[f]) > 0

\* C6: after a 401 close of an unregistered flow, its temporary directory is not
\* removed, by whichever timer, before CLEANUP_DELAY_MS have passed (the grace timer
\* armed by that close still has time left).
C6_NoRemovalBeforeGraceDelay ==
  [][\A f \in Flows :
       (cleanupTimer[f] > 0 /\ tempDir[f] = "exists") => tempDir'[f] # "removed"]_vars

\* C7: when registered credentials are notified after an unregistered 401 close and
\* before the grace delay has passed, no timer removes the flow's directory
\* afterwards, also not while saveCreds() is still pending.
C7_NoRemovalOnceRegisteredInGrace ==
  [][\A f \in Flows :
       (regInGrace[f] /\ tempDir[f] = "exists") => tempDir'[f] # "removed"]_vars

\* C8: the handler bodies of two /pair requests never overlap: while one request is
\* between acquiring and releasing the lock (its hold window included), no other
\* request is, and a waiting request's connector has not begun (no directory, no
\* credential load); a request's connector only runs inside its own handler body.
C8_PairHandlersNeverOverlap ==
  /\ \A r1, r2 \in Requests :
       (r1 # r2 /\ InBody(r1)) => (~InBody(r2) /\ ~FlowActive(r2))
  /\ \A r \in Requests :
       /\ reqPc[r] \in {"idle", "waiting"} => (pc[r] = "unused" /\ tempDir[r] = "none")
       /\ FlowActive(r) => InBody(r)
       /\ InBody(r) => locked

\* one request waits for the lock while the other is in its hold window
C8_Witness ==
  \E r1, r2 \in Requests : pc[r1] = "hold" /\ reqPc[r2] = "waiting"

\* C9: a /pair request for a number whose session an earlier flow moved to the
\* persistent directory is answered 200 already_registered and requests no pairing
\* code (stated for the requests whose credential load and socket creation succeed).
C9_AlreadyRegisteredNoNewCode ==
  \A r \in Requests :
    persistAtStart[r] =>
      /\ pairReq[r] = 0
      /\ (pc[r] = "returned" /\ sock[r] # "none") => responses[r] = <<R200Already>>

\* C10: a /pair request that waits for or holds the lock eventually finishes its
\* handler and releases the lock, whatever connector's outcome.
C10_LockEventuallyReleased ==
  \A r \in Requests :
    (reqPc[r] \in {"waiting", "acquired", "running"}) ~> (reqPc[r] = "done")

\* both requests are done and the lock is free: one held its code for the whole
\* hold window, the other waited and then failed while loading its credentials
C10_Witness ==
  \E r1, r2 \in Requests :
    /\ reqPc[r1] = "done" /\ reqPc[r2] = "done" /\ ~locked
    /\ responses[r1] = <<R200Code>> /\ holdElapsed[r1] = PAIR_HOLD_MS
    /\ responses[r2] = <<R500Internal>>

\* C11: when requestPairingCode rejects in the flow of a /pair request, the request
\* is answered 500 pairing_failed and nothing else (connector returns normally, so
\* the handler's internal_error reply is not sent), the handler ends and the lock is
\* released or handed to the next waiting request, which then runs.
C11_PairingFailureAnswered ==
  [][\A r \in Requests :
       PairingCodeSettled(r, FALSE) =>
         /\ responses'[r] = <<[status |-> 500, body |-> "pairing_failed"]>>
         /\ pc'[r] = "returned"
         /\ reqPc'[r] = "done"
         /\ IF queue = <<>>
            THEN ~locked'
            ELSE reqPc'[Head(queue)] = "acquired" /\ queue' = Tail(queue)]_vars

\* a request was answered pairing_failed after its one requestPairingCode call, and
\* a later request got the lock and its pairing code
C11_Witness ==
  \E r1, r2 \in Requests :
    /\ r1 < r2
    /\ responses[r1] = <<[status |-> 500, body |-> "pairing_failed"]>>
    /\ reqPc[r1] = "done"
    /\ pairReq[r1] = 1
    /\ responses[r2] = <<[status |-> 200, body |-> "code"]>>

\* the responses the claim lists
ListedResponses ==
  {[status |-> 200, body |-> "code"],
   [status |-> 200, body |-> "already_registered"],
   [status |-> 400, body |-> "Phone number required"],
   [status |-> 429, body |-> "too_many_reconnects"],
   [status |-> 500, body |-> "pairing_failed"]}

\* no request has more than one response, and a finished request has one
OneResponseEach ==
  \A r \in Requests :
    /\ Len(responses[r]) <= 1
    /\ reqPc[r] = "done" => Len(responses[r]) = 1

\* C12 (as claimed): every /pair request gets exactly one response, which is 200 with
\* a code, 200 already_registered, 400 Phone number required, 429 too_many_reconnects
\* or 500 pairing_failed.
C12_OneListedResponse ==
  /\ OneResponseEach
  /\ \A r \in Requests : \A i \in 1..Len(responses[r]) : responses[r][i] \in ListedResponses

\* C12 (amended): every /pair request gets exactly one response, which is one of the
\* five listed or 500 internal_error (connector threw before its pairing branch); once
\* sent, no later step (hold outcome, upload, close, reconnect, timers) adds a second
\* response or changes the first.
C12_OneResponseListedOrInternalError ==
  /\ [](/\ OneResponseEach
        /\ \A r \in Requests : \A i \in 1..Len(responses[r]) :
             responses[r][i] \in
               ListedResponses \cup {[status |-> 500, body |-> "internal_error"]})
  /\ [][\A r \in Requests : responses[r] # <<>> => responses'[r] = responses[r]]_vars

\* one request was answered internal_error; the other got its code, and its flow
\* went on to the end of the hold window, the close of its socket and a reconnect
C12_Witness ==
  \E r1, r2 \in Requests :
    /\ responses[r1] = <<[status |-> 500, body |-> "internal_error"]>>
    /\ reqPc[r1] = "done"
    /\ responses[r2] = <<[status |-> 200, body |-> "code"]>>
    /\ reqPc[r2] = "done"
    /\ holdElapsed[r2] = PAIR_HOLD_MS
    /\ sock[r2] = "closed"
    /\ nextFlow > MaxRequests + 1

\* C15: at most one connector execution, whether started by a /pair request or by a
\* reconnect timer, is between its start and its return at any time.
C15_AtMostOneActiveFlow ==
  Cardinality({f \in Flows : FlowActive(f)}) <= 1

\* C16: a reconnect whose backoff timer fires runs connector past the limit test, on
\* to the credential load and the creation of a new socket.
C16_ReconnectRunsFullFlow ==
  [][\A n \in Nums : ReconnectFire(n) => pc'[nextFlow] = "loadAuth"]_vars

\* C17: a close whose reason is not connectionClosed, connectionLost or
\* restartRequired (401 and a missing reason included) changes no reconnect counter
\* and arms no reconnect timer; unless the reason is 401 it also arms no cleanup
\* timer and removes or moves no directory.
C17_OtherCloseChangesNothing ==
  [][\A f \in Flows :
       \A reason \in Reasons \ {connectionClosed, connectionLost, restartRequired} :
         Close(f, reason) =>
           /\ reconnectAttempts' = reconnectAttempts
           /\ rcTimers' = rcTimers
           /\ reason # loggedOut =>
                /\ cleanupTimer' = cleanupTimer
                /\ holdTimer' = holdTimer
                /\ tempDir' = tempDir
                /\ persistDir' = persistDir]_vars

\* the only socket created so far was closed, no reconnect was ever scheduled, no
\* cleanup timer is armed and the flow's directory is still there
C17_Witness ==
  \E f \in Flows :
    /\ sock[f] = "closed"
    /\ \A g \in Flows \ {f} : sock[g] = "none"
    /\ reconnectAttempts[fNum[f]] = 0
    /\ streak[fNum[f]] = 0
    /\ TotalPending(Nums) = 0
    /\ nextFlow = MaxRequests + 1
    /\ cleanupTimer[f] = NoTimer
    /\ ~registered[f]
    /\ tempDir[f] = "exists"

\* C18: at most one socket is live (created and not closed) at any time, whichever
\* number or kind of flow created it.
C18_AtMostOneLiveSocket ==
  Cardinality({f \in Flows : sock[f] \in {"connecting", "open"}}) <= 1

\* C19: the temporary directory of every connector invocation is eventually moved
\* to the persistent location or removed.
C19_TempDirEventuallyGone ==
  \A f \in Flows : (tempDir[f] = "exists") ~> (tempDir[f] \in {"moved", "removed"})

\* C20: a /pair request whose number is present but has no decimal digit gets no
\* socket and no requestPairingCode call, and no flow requests a pairing code for
\* the empty number.
C20_NoCodeForEmptyNumber ==
  /\ \A r \in Requests :
       (reqPc[r] # "idle" /\ reqNumber[r].present /\ Sanitize(reqNumber[r].chars) = <<>>)
         => (sock[r] = "none" /\ pairReq[r] = 0)
  /\ \A f \in Flows : pairReq[f] > 0 => fNum[f] # <<>>

\* C13: for a non-empty raw code the formatting succeeds and the formatted code is
\* the raw characters in order in groups of exactly four joined by '-', the last
\* group possibly shorter; without the delimiters it is the raw code.
C13_CodeInGroupsOfFour ==
  (fnPc # "ready" /\ rawCode # <<>>) =>
    LET n == Len(rawCode)
        groups == (n + 3) \div 4
    IN /\ fnPc = "done"
       /\ Len(pretty) = n + groups - 1
       /\ \A i \in 1..n : pretty[i + ((i - 1) \div 4)] = rawCode[i]
       /\ \A g \in 1..(groups - 1) : pretty[5 * g] = "-"
       /\ SelectSeq(pretty, LAMBDA c : c # "-") = rawCode

\* a code of nine characters was formatted: two groups of four and a final group of
\* one
C13_Witness ==
  /\ fnPc = "done"
  /\ Len(rawCode) = 9
  /\ Len(pretty) = 11
  /\ pretty[5] = "-" /\ pretty[10] = "-"
  /\ pretty[11] = rawCode[9]

\* C14: the sanitized identifier is the subsequence of the decimal digits of the
\* input in their order: no other character in it, no digit dropped.
C14_SanitizedIsDigitSubsequence ==
  fnPc = "done" =>
    LET at == {i \in 1..Len(NUMBER) : NUMBER[i] \in Digits}
        Nth(k) == CHOOSE i \in at : Cardinality({j \in at : j <= i}) = k
    IN /\ Len(sanitized) = Cardinality(at)
       /\ \A k \in 1..Len(sanitized) : sanitized[k] = NUMBER[Nth(k)]

\* '+1 5' was sanitized to '15': a marker and a blank dropped, both digits kept
C14_Witness ==
  /\ fnPc = "done"
  /\ NUMBER = <<"+", "1", " ", "5">>
  /\ sanitized = <<"1", "5">>

====
